---- MODULE Spec2Model ----
(***************************************************************************)
(* The card list view of the Swagger dashboard (SwaggerView.tsx): the card *)
(* registry held in React state, its mirror in localStorage, the fetch     *)
(* update path with its error classification, the changed-card-id set and  *)
(* the per-card polling intervals.                                         *)
(*                                                                         *)
(* JavaScript values are records tagged with their type, so that           *)
(* `a || b`, `a ?? b`, JSON.stringify and the Date <-> ISO string          *)
(* conversions can be written as the language defines them.  JavaScript    *)
(* strings are TLA+ strings.  The user-facing messages of the source are   *)
(* Korean; they are written here in ASCII, keeping every substring the     *)
(* code tests for ("HTTP", "JSON", "fetch").                               *)
(***************************************************************************)
EXTENDS Integers, Sequences, FiniteSets, TLC

VARIABLES
    mounted,                \* the SwaggerView component is mounted
    cards,                  \* useState<SwaggerCard[]>
    changedCardIds,         \* useState<Set<string>>
    globalRefreshInterval,  \* useState<number>
    editingCardId,          \* useState<string | null>
    localStorage,           \* the three items of the origin's localStorage
    quotaExceeded,          \* localStorage.setItem throws while TRUE
    intervals,              \* card ids with a live setInterval handle
    armedAt,                \* when the live intervals were created
    delay,                  \* the delay the live intervals were created with
    due,                    \* card ids whose interval callback is queued to run
    leaked,                 \* card ids with an interval no cleanup can clear
    inFlight,               \* fetches issued and not yet resolved
    steps,                  \* number of handlers that have run
    now,                    \* the clock: milliseconds after EpochBase
    last,                   \* the last handler that ran, with its inputs
    detailMounted,          \* the SwaggerViewDetail component is mounted
    diffLogs,               \* its useState<DiffLog[]>: the diffLogIds, newest first
    selectedDiff,           \* its useState<DiffDetail | null>: a diffLogId or null
    detailLoading,          \* its useState loading
    detailError,            \* its useState error
    schemaCounts,           \* its useState schemaCounts: the diffLogIds with counts
    schemaCountsMap,        \* the local schemaCountsMap of a running fetchDiffLogs
    requests                \* the requests of the detail view not yet resolved

\* the state of the card list view and its environment
listVars == <<mounted, cards, changedCardIds, globalRefreshInterval, editingCardId,
              localStorage, quotaExceeded, intervals, armedAt, delay, due, leaked,
              inFlight, now>>

\* the state of the diff detail view
detailVars == <<detailMounted, diffLogs, selectedDiff, detailLoading, detailError,
                schemaCounts, schemaCountsMap, requests>>

vars == <<mounted, cards, changedCardIds, globalRefreshInterval, editingCardId,
          localStorage, quotaExceeded, intervals, armedAt, delay, due, leaked, inFlight,
          steps, now, last, detailMounted, diffLogs, selectedDiff, detailLoading,
          detailError, schemaCounts, schemaCountsMap, requests>>

(***************************************************************************)
(* Bounds of the model.                                                    *)
(***************************************************************************)
MaxCards == 2
MaxSteps == 7
MaxTime == 1

(***************************************************************************)
(* JavaScript values.                                                      *)
(***************************************************************************)
Null == [type |-> "null"]
Undefined == [type |-> "undefined"]
Str(s) == [type |-> "string", s |-> s]
Num(n) == [type |-> "number", n |-> n]
Bool(b) == [type |-> "boolean", b |-> b]
DateOf(t) == [type |-> "Date", time |-> t]
\* An object keeps its members in insertion order: a sequence of <<key, number>>.
Obj(members) == [type |-> "object", members |-> members]

\* ToBoolean
Truthy(v) ==
    CASE v.type = "null" -> FALSE
      [] v.type = "undefined" -> FALSE
      [] v.type = "string" -> v.s # ""
      [] v.type = "number" -> v.n # 0
      [] v.type = "boolean" -> v.b
      [] OTHER -> TRUE

\* a || b
Or(a, b) == IF Truthy(a) THEN a ELSE b

\* a ?? b
Nullish(a, b) == IF a.type \in {"null", "undefined"} THEN b ELSE a

\* String.prototype.trim, over the space character
RECURSIVE TrimStart(_)
TrimStart(s) ==
    IF Len(s) > 0 /\ SubSeq(s, 1, 1) = " " THEN TrimStart(SubSeq(s, 2, Len(s))) ELSE s

RECURSIVE TrimEnd(_)
TrimEnd(s) ==
    IF Len(s) > 0 /\ SubSeq(s, Len(s), Len(s)) = " "
    THEN TrimEnd(SubSeq(s, 1, Len(s) - 1))
    ELSE s

Trim(s) == TrimEnd(TrimStart(s))

\* String.prototype.includes
Includes(s, sub) ==
    \E i \in 1..(Len(s) - Len(sub) + 1) : SubSeq(s, i, i + Len(sub) - 1) = sub

\* String.prototype.substring(0, n)
Substring0(s, n) == IF Len(s) > n THEN SubSeq(s, 1, n) ELSE s

IsDigit(ch) == ch \in {"0", "1", "2", "3", "4", "5", "6", "7", "8", "9"}

\* the longest run of digits that starts at position i of s
RECURSIVE DigitsAt(_, _)
DigitsAt(s, i) ==
    IF i <= Len(s) /\ IsDigit(SubSeq(s, i, i))
    THEN SubSeq(s, i, i) \o DigitsAt(s, i + 1)
    ELSE ""

\* msg.match(/HTTP (\d+)/): the positions where the pattern matches
HttpMatches(msg) ==
    {i \in 1..Len(msg) :
        /\ i + 5 <= Len(msg)
        /\ SubSeq(msg, i, i + 4) = "HTTP "
        /\ IsDigit(SubSeq(msg, i + 5, i + 5))}

MinOf(S) == CHOOSE x \in S : \A y \in S : x <= y

\* statusMatch[1] of the leftmost match; "" when there is no match
HttpStatusMatch(msg) ==
    IF HttpMatches(msg) = {} THEN "" ELSE DigitsAt(msg, MinOf(HttpMatches(msg)) + 5)

(***************************************************************************)
(* JSON.stringify of a value, as the text it produces.                     *)
(***************************************************************************)
EpochBase == "170000000000"
IsoBase == "2023-11-14T22:13:20.00"

\* Date.now().toString(): the clock reads EpochBase followed by the digit now, now a single digit
DateNowString(t) == EpochBase \o ToString(t)

\* Date.prototype.toISOString
ToISOString(t) == IsoBase \o ToString(t) \o "Z"

RECURSIVE StringifyMembers(_)
StringifyMembers(m) ==
    IF Len(m) = 0 THEN ""
    ELSE "\"" \o m[1][1] \o "\":" \o ToString(m[1][2])
         \o (IF Len(m) > 1 THEN "," ELSE "")
         \o StringifyMembers(Tail(m))

JSONstringify(v) ==
    CASE v.type = "null" -> "null"
      [] v.type = "string" -> "\"" \o v.s \o "\""
      [] v.type = "number" -> ToString(v.n)
      [] v.type = "boolean" -> IF v.b THEN "true" ELSE "false"
      [] v.type = "Date" -> "\"" \o ToISOString(v.time) \o "\""
      [] v.type = "object" -> "{" \o StringifyMembers(v.members) \o "}"
      [] OTHER -> "undefined"

\* Deep structural equality of two JSON values: objects are equal when they
\* have the same members, in whatever order.
MemberSet(v) == {v.members[i] : i \in 1..Len(v.members)}

DeepEqual(v, w) ==
    IF v.type = "object" /\ w.type = "object"
    THEN MemberSet(v) = MemberSet(w)
    ELSE v = w

(***************************************************************************)
(* Cards.  autoRefresh and loading are only ever tested for truth, so the  *)
(* model keeps their truth value.                                          *)
(***************************************************************************)
Card(id, name, url, swaggerUrl, autoRefresh, loading, response, error, lastUpdated) ==
    [id |-> id, name |-> name, url |-> url, swaggerUrl |-> swaggerUrl,
     autoRefresh |-> autoRefresh, loading |-> loading, response |-> response,
     error |-> error, lastUpdated |-> lastUpdated]

DefaultCard ==
    Card(Str("1"), Str("users"),
         Str("http://3dpit.iptime.org:8000/api/v1/users/api-docs"),
         Undefined, FALSE, FALSE, Null, Null, Null)

DefaultInterval == 4000

Ids(cs) == {cs[i].id : i \in 1..Len(cs)}

\* Array.prototype.map
MapSeq(f(_), s) == [i \in 1..Len(s) |-> f(s[i])]

(***************************************************************************)
(* localStorage.  An item is absent, or holds a text.  A text written by   *)
(* JSON.stringify of an array is kept as the array JSON.parse gives back   *)
(* for it (kind "array"); any other text is kept as written (kind "text"). *)
(***************************************************************************)
NoItem == [kind |-> "absent"]
TextItem(text) == [kind |-> "text", text |-> text]
ArrayItem(elems) == [kind |-> "array", elems |-> elems]

\* JSON.stringify of one card, read back by JSON.parse: a Date becomes its
\* ISO string, a member whose value is undefined is left out
CardToJSON(c) ==
    [type |-> "object",
     id |-> c.id, name |-> c.name, url |-> c.url, swaggerUrl |-> c.swaggerUrl,
     autoRefresh |-> Bool(c.autoRefresh), loading |-> Bool(c.loading),
     response |-> c.response, error |-> c.error,
     lastUpdated |-> IF c.lastUpdated.type = "Date"
                     THEN Str(ToISOString(c.lastUpdated.time))
                     ELSE c.lastUpdated]

\* JSON.stringify(cards)
StringifyCards(cs) == ArrayItem(MapSeq(CardToJSON, cs))

\* JSON.stringify(Array.from(changedCardIds)): the ids, as a set
StringifyIds(ids) == [kind |-> "idarray", ids |-> ids]

\* String(globalRefreshInterval)
StringOfNumber(n) == TextItem(ToString(n))

\* new Date(isoString): the time whose ISO string it is
NewDate(v) ==
    IF \E t \in 0..9 : v = Str(ToISOString(t))
    THEN DateOf(CHOOSE t \in 0..9 : v = Str(ToISOString(t)))
    ELSE [type |-> "Date", time |-> -1]

\* card.<field> of an element of the parsed array
Member(e, field) == IF field \in DOMAIN e THEN e[field] ELSE Undefined

\* the callback of parsed.map(...) in loadCardsFromStorage
RestoreCardKeepsLoading(e) ==
    Card(Member(e, "id"), Member(e, "name"), Member(e, "url"),
         Or(Member(e, "swaggerUrl"), Undefined),
         Truthy(Nullish(Member(e, "autoRefresh"), Bool(FALSE))),
         Truthy(Member(e, "loading")),
         Or(Member(e, "response"), Null),
         Or(Member(e, "error"), Null),
         IF Truthy(Member(e, "lastUpdated"))
         THEN NewDate(Member(e, "lastUpdated"))
         ELSE Null)

RestoreCard(e) ==
    Card(Member(e, "id"), Member(e, "name"), Member(e, "url"),
         Or(Member(e, "swaggerUrl"), Undefined),
         Truthy(Nullish(Member(e, "autoRefresh"), Bool(FALSE))),
         FALSE,
         Or(Member(e, "response"), Null),
         Or(Member(e, "error"), Null),
         IF Truthy(Member(e, "lastUpdated"))
         THEN NewDate(Member(e, "lastUpdated"))
         ELSE Null)

\* the try block of loadCardsFromStorage throws: JSON.parse rejects the text,
\* the parsed value has no map method, or an element is null (reading a
\* property of null throws)
LoadCardsThrows(item) ==
    \/ item.kind = "text" /\ item.text # ""
    \/ item.kind = "array" /\ \E i \in 1..Len(item.elems) : item.elems[i].type = "null"

\* if (stored) { ... return parsed.map(...) } reaches its return
LoadCardsReturns(item) ==
    /\ item.kind = "array"
    /\ ~LoadCardsThrows(item)

loadCardsFromStorage(item) ==
    IF LoadCardsReturns(item)
    THEN MapSeq(RestoreCard, item.elems)
    ELSE <<DefaultCard>>

\* loadChangedCardIds
loadChangedCardIds(item) ==
    IF item.kind = "idarray" THEN item.ids ELSE {}

\* Number(stored) for the texts of the model; 0 stands for NaN
NumberOf(text) ==
    CASE text = "2000" -> 2000
      [] text = "1000" -> 1000
      [] text = "4000" -> 4000
      [] text = "-5" -> -5
      [] text = "7" -> 7
      [] OTHER -> 0

\* loadRefreshInterval
loadRefreshInterval(item) ==
    IF item.kind = "text" /\ item.text # "" /\ NumberOf(item.text) > 0
    THEN NumberOf(item.text)
    ELSE DefaultInterval

\* localStorage.setItem inside try/catch: the write is lost when it throws
\* a setItem that loses the item when it fails
SetItemOrLose(store, key, item) ==
    IF quotaExceeded THEN [store EXCEPT ![key] = NoItem] ELSE [store EXCEPT ![key] = item]

SetItem(store, key, item) ==
    IF quotaExceeded THEN store ELSE [store EXCEPT ![key] = item]

(***************************************************************************)
(* The effects that run after a render in which a state changed.           *)
(***************************************************************************)
\* useEffect(..., [cards]): localStorage.setItem(STORAGE_KEY, JSON.stringify(cards))
\* a view that never writes the card list
PersistNothing(store, cs) == store

PersistCards(store, cs) == SetItem(store, "cards", StringifyCards(cs))

\* useEffect(..., [changedCardIds])
PersistChangedIds(store, ids) == SetItem(store, "changed", StringifyIds(ids))

\* useEffect(..., [globalRefreshInterval])
PersistInterval(store, n) == SetItem(store, "interval", StringOfNumber(n))

\* useEffect(..., [cards, fetchData, globalRefreshInterval]): the cleanup clears
\* every handle, then one setInterval per card with autoRefresh
AutoRefreshIds(cs) == {cs[i].id : i \in {j \in 1..Len(cs) : cs[j].autoRefresh}}

\* intervals[card.id] is assigned once per card: a second auto-refreshed card
\* with the same id overwrites the handle of the first, which the cleanup then
\* never clears
OverwrittenIds(cs) ==
    {cs[i].id : i \in {k \in 1..Len(cs) :
        /\ cs[k].autoRefresh
        /\ \E j \in 1..Len(cs) : j > k /\ cs[j].autoRefresh /\ cs[j].id = cs[k].id}}

(***************************************************************************)
(* The backend's answers and fetchData's classification of a failure.      *)
(***************************************************************************)
JsonBodies == {Null, Num(0), Obj(<< <<"a", 1>>, <<"b", 2>> >>),
               Obj(<< <<"b", 2>>, <<"a", 1>> >>), Obj(<< <<"a", 2>> >>)}
TextBodies == {"", "oops", "HTTP 404 Not Found"}
JsonContentTypes == {Str("application/json")}
OtherContentTypes == {Null, Str("text/plain")}
ErrorStatuses == {404, 500}
StatusText(status) == IF status = 404 THEN "Not Found" ELSE "Internal Server Error"
SnippetLength == 200
ShortMessageLength == 50

HttpResponse(status, statusText, contentType, body) ==
    [status |-> status, statusText |-> statusText, contentType |-> contentType,
     body |-> body]

\* what fetch(...) resolves or rejects with
FetchOutcomes ==
    {[kind |-> "response", res |-> HttpResponse(200, "OK", ct, b)] :
        ct \in JsonContentTypes, b \in JsonBodies}
    \cup {[kind |-> "response", res |-> HttpResponse(200, "OK", ct, Str(b))] :
        ct \in OtherContentTypes, b \in TextBodies \ {""}}
    \cup {[kind |-> "response", res |-> HttpResponse(200, "OK", ct, Str("oops"))] :
        ct \in JsonContentTypes}
    \cup {[kind |-> "response",
           res |-> HttpResponse(st, StatusText(st), Str("text/plain"), Str(b))] :
        st \in ErrorStatuses, b \in TextBodies}
    \cup {[kind |-> "rejected", name |-> "TypeError", message |-> m] :
        m \in {"Failed to fetch", "Load failed"}}

\* one outcome of each kind
CoreOutcomes ==
    {[kind |-> "response", res |-> HttpResponse(200, "OK", Str("application/json"), b)] :
        b \in {Num(0), Obj(<< <<"a", 1>>, <<"b", 2>> >>)}}
    \cup {[kind |-> "response",
           res |-> HttpResponse(500, StatusText(500), Str("text/plain"), Str("oops"))]}

\* res.ok
Ok(res) == res.status >= 200 /\ res.status <= 299

\* await res.text(): a text body is wrapped in Str, a JSON body is its text
BodyText(res) == IF res.body.type = "string" THEN res.body.s ELSE JSONstringify(res.body)

\* the body is a JSON text: await res.json() returns its value
IsJsonBody(res) == res.body.type # "string"

\* `${contentType}`
TemplateOf(v) == IF v.type = "string" THEN v.s ELSE "null"

JsError(name, message) == [name |-> name, message |-> message]

\* the Error fetchData throws for a response, or the rejection of fetch itself;
\* [name |-> "none"] when the try block reaches setCards with the data
ThrownBy(outcome) ==
    IF outcome.kind = "rejected" THEN JsError(outcome.name, outcome.message)
    ELSE LET res == outcome.res IN
         IF ~Ok(res)
         THEN JsError("Error",
                "HTTP " \o ToString(res.status) \o " " \o res.statusText \o ": "
                \o (IF BodyText(res) # "" THEN BodyText(res) ELSE "no response"))
         ELSE IF ~Truthy(res.contentType)
                 \/ ~Includes(res.contentType.s, "application/json")
         THEN JsError("Error",
                "received a response that is not JSON (Content-Type: "
                \o TemplateOf(res.contentType) \o "): "
                \o Substring0(BodyText(res), SnippetLength))
         ELSE IF ~IsJsonBody(res)
         THEN JsError("SyntaxError", "Unexpected token in JSON at position 0")
         ELSE JsError("none", "")

MsgConnectionFailed == "(!) server connection failed"
MsgHttpStatus(code) == "(!) HTTP " \o code \o " error"
MsgHttp == "(!) HTTP error"
MsgInvalidFormat == "(!) invalid response format"
MsgOther(msg) ==
    "(!) " \o (IF Len(msg) > ShortMessageLength
               THEN SubSeq(msg, 1, ShortMessageLength) \o "..."
               ELSE msg)

\* the catch block of fetchData: errorMessage
Classify(err) ==
    IF err.name = "TypeError" /\ Includes(err.message, "fetch")
    THEN MsgConnectionFailed
    ELSE IF Includes(err.message, "HTTP")
    THEN (IF HttpStatusMatch(err.message) # ""
          THEN MsgHttpStatus(HttpStatusMatch(err.message))
          ELSE MsgHttp)
    ELSE IF Includes(err.message, "JSON") THEN MsgInvalidFormat
    ELSE MsgOther(err.message)

(***************************************************************************)
(* What the user can type into the add form and the edit form.             *)
(***************************************************************************)
Form(name, url, swaggerUrl) == [name |-> name, url |-> url, swaggerUrl |-> swaggerUrl]
FormInputs ==
    {Form(" ", "http://x/openapi ", ""), Form(" Orders ", "", "http://x/ui"),
     Form(" Orders ", "http://x/openapi ", " "),
     Form(" Orders ", "http://x/openapi ", " http://x/ui")}

\* what localStorage can hold when the page is first opened
InitialCardItems ==
    {NoItem, TextItem(""), TextItem("{oops"), TextItem("null"), TextItem("{}"),
     ArrayItem(<<Null>>), ArrayItem(<<Num(7)>>)}
InitialChangedItems == {NoItem, TextItem("{oops")}
InitialIntervalItems == {NoItem, TextItem("abc"), TextItem("-5"), TextItem("2000")}
FreshStorage == [cards |-> NoItem, changed |-> NoItem, interval |-> NoItem]
IntervalOptions == {1000, 4000}

\* the detail view before it is first rendered: its useState initial values
DetailViewAbsent ==
    /\ detailMounted = FALSE
    /\ diffLogs = <<>>
    /\ selectedDiff = Null
    /\ detailLoading = FALSE
    /\ detailError = Null
    /\ schemaCounts = {}
    /\ schemaCountsMap = {}
    /\ requests = {}

Init ==
    /\ mounted = FALSE
    /\ cards = <<>>
    /\ changedCardIds = {}
    /\ globalRefreshInterval = DefaultInterval
    /\ editingCardId = Null
    /\ localStorage = FreshStorage
    /\ quotaExceeded = FALSE
    /\ intervals = {}
    /\ armedAt = 0
    /\ delay = DefaultInterval
    /\ due = {}
    /\ leaked = {}
    /\ inFlight = {}
    /\ steps = 0
    /\ now = 0
    /\ last = [op |-> "init"]
    /\ DetailViewAbsent

\* every handler that runs counts as one step; a behaviour has at most
\* MaxSteps, unless it starts with steps = NoBudget: then steps are not counted
\* and the fetches are not numbered
NoBudget == -1

Budget ==
    IF steps = NoBudget
    THEN steps' = steps
    ELSE steps < MaxSteps /\ steps' = steps + 1

(***************************************************************************)
(* Mounting the view: the three useState initialisers read localStorage,   *)
(* then the effects of the first render write the three items back and     *)
(* create the intervals.                                                   *)
(***************************************************************************)
Mount ==
    /\ Budget
    /\ ~mounted
    /\ LET cs == loadCardsFromStorage(localStorage.cards)
           ids == loadChangedCardIds(localStorage.changed)
           n == loadRefreshInterval(localStorage.interval)
       IN /\ cards' = cs
          /\ changedCardIds' = ids
          /\ globalRefreshInterval' = n
          /\ localStorage' =
                PersistChangedIds(PersistInterval(PersistCards(localStorage, cs), n), ids)
          /\ intervals' = AutoRefreshIds(cs)
          /\ leaked' = OverwrittenIds(cs)
          /\ delay' = n
    /\ armedAt' = now
    /\ due' = {}
    /\ mounted' = TRUE
    /\ editingCardId' = Null
    /\ last' = [op |-> "mount", item |-> localStorage.cards]
    /\ UNCHANGED <<quotaExceeded, inFlight, now>>
    /\ UNCHANGED detailVars

\* The view goes away (the home button, or the page is closed or reloaded):
\* its state is dropped, its intervals are cleared, and what a fetch still in
\* flight resolves to no longer reaches any state.
Gone ==
    /\ mounted' = FALSE
    /\ cards' = <<>>
    /\ changedCardIds' = {}
    /\ globalRefreshInterval' = DefaultInterval
    /\ editingCardId' = Null
    /\ intervals' = {}
    /\ leaked' = {}
    /\ inFlight' = {}
    /\ due' = {}
    /\ UNCHANGED <<armedAt, delay>>

Unmount ==
    /\ Budget
    /\ mounted
    /\ Gone
    /\ last' = [op |-> "unmount"]
    /\ UNCHANGED <<localStorage, quotaExceeded, now>>
    /\ UNCHANGED detailVars

\* handleCardClick: the id leaves the changed set and the router replaces the
\* view.  Whether the effect that persists the set still runs before the view
\* is unmounted depends on whether the router's update is rendered together
\* with the state update or after it, which the router version decides.
handleCardClick(i, effectRuns) ==
    /\ Budget
    /\ mounted
    /\ i \in 1..Len(cards)
    /\ editingCardId # cards[i].id
    /\ localStorage' =
          IF cards[i].id \in changedCardIds /\ effectRuns
          THEN PersistChangedIds(localStorage, changedCardIds \ {cards[i].id})
          ELSE localStorage
    /\ Gone
    /\ last' = [op |-> "handleCardClick", id |-> cards[i].id,
                wasChanged |-> cards[i].id \in changedCardIds]
    /\ UNCHANGED <<quotaExceeded, now>>
    /\ UNCHANGED detailVars

(***************************************************************************)
(* The card registry.                                                      *)
(***************************************************************************)
\* the card addCard builds; newCardSwaggerUrl.trim() || undefined
NewCardNoTrim(name, url, swaggerUrl, t) ==
    Card(Str(DateNowString(t)), Str(name), Str(url),
         Or(Str(Trim(swaggerUrl)), Undefined), FALSE, FALSE, Null, Null, Null)

NewCard(name, url, swaggerUrl, t) ==
    Card(Str(DateNowString(t)), Str(Trim(name)), Str(Trim(url)),
         Or(Str(Trim(swaggerUrl)), Undefined), FALSE, FALSE, Null, Null, Null)

\* a validation that looks at the name only
RejectedNameOnly(name, url) == Trim(name) = ""

\* !name.trim() || !url.trim()
Rejected(name, url) == Trim(name) = "" \/ Trim(url) = ""

\* every handler that calls setCards ends in a render whose effects persist
\* the cards and rebuild the intervals
CommitCards(cs) ==
    /\ cards' = cs
    /\ intervals' = AutoRefreshIds(cs)
    /\ armedAt' = now
    /\ delay' = globalRefreshInterval
    /\ leaked' = leaked \cup OverwrittenIds(cs)

addCard(name, url, swaggerUrl) ==
    /\ Budget
    /\ mounted
    /\ IF Rejected(name, url)
       THEN /\ last' = [op |-> "addCard", name |-> name, url |-> url, accepted |-> FALSE]
            /\ UNCHANGED <<cards, intervals, armedAt, delay, due, leaked, localStorage>>
       ELSE /\ Len(cards) < MaxCards
            /\ CommitCards(Append(cards, NewCard(name, url, swaggerUrl, now)))
            /\ due' = {}
            /\ localStorage' = PersistCards(localStorage, cards')
            /\ last' = [op |-> "addCard", name |-> name, url |-> url, accepted |-> TRUE]
    /\ UNCHANGED <<mounted, changedCardIds, globalRefreshInterval, editingCardId,
                   quotaExceeded, inFlight, now>>
    /\ UNCHANGED detailVars

startEditCard(i) ==
    /\ Budget
    /\ mounted
    /\ i \in 1..Len(cards)
    /\ editingCardId # cards[i].id
    /\ editingCardId' = cards[i].id
    /\ last' = [op |-> "startEditCard", id |-> cards[i].id]
    /\ UNCHANGED <<mounted, cards, changedCardIds, globalRefreshInterval, localStorage,
                   quotaExceeded, intervals, armedAt, delay, due, leaked, inFlight, now>>
    /\ UNCHANGED detailVars

cancelEdit ==
    /\ Budget
    /\ mounted
    /\ editingCardId \in Ids(cards)
    /\ editingCardId' = Null
    /\ last' = [op |-> "cancelEdit"]
    /\ UNCHANGED <<mounted, cards, changedCardIds, globalRefreshInterval, localStorage,
                   quotaExceeded, intervals, armedAt, delay, due, leaked, inFlight, now>>
    /\ UNCHANGED detailVars

\* the callback of prev.map(...) in saveEditCard
Edited(c, id, name, url, swaggerUrl) ==
    IF c.id = id
    THEN [c EXCEPT !.name = Str(Trim(name)), !.url = Str(Trim(url)),
                   !.swaggerUrl = Or(Str(Trim(swaggerUrl)), Undefined)]
    ELSE c

\* the save button is rendered on the card whose id is editingCardId
saveEditCard(name, url, swaggerUrl) ==
    /\ Budget
    /\ mounted
    /\ editingCardId \in Ids(cards)
    /\ IF Rejected(name, url)
       THEN /\ last' = [op |-> "saveEditCard", id |-> editingCardId, name |-> name,
                        url |-> url, accepted |-> FALSE]
            /\ UNCHANGED <<cards, intervals, armedAt, delay, due, leaked, localStorage,
                           editingCardId>>
       ELSE /\ CommitCards(MapSeq(LAMBDA c : Edited(c, editingCardId, name, url, swaggerUrl),
                                  cards))
            /\ due' = {}
            /\ localStorage' = PersistCards(localStorage, cards')
            /\ editingCardId' = Null
            /\ last' = [op |-> "saveEditCard", id |-> editingCardId, name |-> name,
                        url |-> url, accepted |-> TRUE]
    /\ UNCHANGED <<mounted, changedCardIds, globalRefreshInterval, quotaExceeded,
                   inFlight, now>>
    /\ UNCHANGED detailVars

\* prev.filter((card) => card.id !== cardId)
Without(cs, id) == SelectSeq(cs, LAMBDA c : c.id # id)

\* newSet.delete(cardId)
IdsKept(ids, id) == ids

IdsWithout(ids, id) == ids \ {id}

\* the delete button is rendered on every card that is not being edited
deleteCard(i, confirmed) ==
    /\ Budget
    /\ mounted
    /\ i \in 1..Len(cards)
    /\ editingCardId # cards[i].id
    /\ IF confirmed
       THEN /\ CommitCards(Without(cards, cards[i].id))
            /\ due' = {}
            /\ changedCardIds' = IdsWithout(changedCardIds, cards[i].id)
            /\ localStorage' =
                  PersistChangedIds(PersistCards(localStorage, cards'), changedCardIds')
       ELSE UNCHANGED <<cards, intervals, armedAt, delay, due, leaked, changedCardIds,
                        localStorage>>
    /\ last' = [op |-> "deleteCard", id |-> cards[i].id, confirmed |-> confirmed,
                wasChanged |-> cards[i].id \in changedCardIds]
    /\ UNCHANGED <<mounted, globalRefreshInterval, editingCardId, quotaExceeded,
                   inFlight, now>>
    /\ UNCHANGED detailVars

\* the callback of prev.map(...) in toggleAutoRefresh
Toggled(c, id) == IF c.id = id THEN [c EXCEPT !.autoRefresh = ~@] ELSE c

\* the toggle button is disabled while the card is loading
toggleAutoRefresh(i) ==
    /\ Budget
    /\ mounted
    /\ i \in 1..Len(cards)
    /\ ~cards[i].loading
    /\ CommitCards(MapSeq(LAMBDA c : Toggled(c, cards[i].id), cards))
    /\ due' = {}
    /\ localStorage' = PersistCards(localStorage, cards')
    /\ last' = [op |-> "toggleAutoRefresh", id |-> cards[i].id]
    /\ UNCHANGED <<mounted, changedCardIds, globalRefreshInterval, editingCardId,
                   quotaExceeded, inFlight, now>>
    /\ UNCHANGED detailVars

\* the select of the header
setGlobalRefreshInterval(n) ==
    /\ Budget
    /\ mounted
    /\ n # globalRefreshInterval
    /\ globalRefreshInterval' = n
    /\ localStorage' = PersistInterval(localStorage, n)
    /\ armedAt' = now
    /\ delay' = n
    /\ due' = {}
    /\ leaked' = leaked \cup OverwrittenIds(cards)
    /\ last' = [op |-> "setGlobalRefreshInterval", n |-> n]
    /\ UNCHANGED <<mounted, cards, changedCardIds, editingCardId, quotaExceeded,
                   intervals, inFlight, now>>
    /\ UNCHANGED detailVars

(***************************************************************************)
(* fetchData.  Its first part runs in the handler that calls it, up to the *)
(* await of fetch; its second part runs when fetch resolves or rejects.    *)
(***************************************************************************)
\* the callback of prev.map(...) that marks the card as loading
Loading(c, id) == IF c.id = id THEN [c EXCEPT !.loading = TRUE] ELSE c

\* The cleanup of the auto-refresh effect runs after the render, in a later
\* task: the callbacks of the other intervals that came due together with
\* this one are already queued and still run.
FetchStart(id, byTimer) ==
    /\ Budget
    /\ CommitCards(MapSeq(LAMBDA c : Loading(c, id), cards))
    /\ due' = IF byTimer THEN due \ {id} ELSE {}
    /\ localStorage' = PersistCards(localStorage, cards')
    /\ inFlight' = inFlight \cup {[n |-> steps, cardId |-> id, byTimer |-> byTimer]}
    /\ last' = [op |-> "fetchData", id |-> id, byTimer |-> byTimer]
    /\ UNCHANGED <<mounted, changedCardIds, globalRefreshInterval, editingCardId,
                   quotaExceeded, now>>
    /\ UNCHANGED detailVars

\* the fetch button of a card, disabled while the card is loading
fetchDataByButton(i) ==
    /\ mounted
    /\ i \in 1..Len(cards)
    /\ ~cards[i].loading
    /\ FetchStart(cards[i].id, FALSE)

\* the callback of an interval
fetchDataByInterval(id) ==
    /\ mounted
    /\ id \in intervals
    /\ FetchStart(id, TRUE)

\* setInterval(..., globalRefreshInterval): the delay passes without the effect
\* running again, and the callbacks of the live intervals are queued
DelayElapses ==
    /\ Budget
    /\ mounted
    /\ intervals # {}
    /\ due # intervals
    /\ due' = intervals
    /\ last' = [op |-> "delayElapses"]
    /\ UNCHANGED <<mounted, cards, changedCardIds, globalRefreshInterval, editingCardId,
                   localStorage, quotaExceeded, intervals, armedAt, delay, leaked,
                   inFlight, now>>
    /\ UNCHANGED detailVars

\* the callback of an interval, run when it is due
fetchDataWhenDue(id) ==
    /\ id \in due
    /\ fetchDataByInterval(id)

\* the callback of an interval whose handle was overwritten: it runs the
\* fetchData of the render that created it, whose cards hold the card
fetchDataByLeakedInterval(id) ==
    /\ mounted
    /\ id \in leaked
    /\ FetchStart(id, TRUE)

\* JSON.stringify(c.response) !== JSON.stringify(data)
ResponseChanged(c, data) == JSONstringify(c.response) # JSONstringify(data)

\* a success path that leaves the error of the card in place
SucceededKeepsError(c, id, data, t) ==
    IF c.id = id
    THEN [c EXCEPT !.response = data, !.loading = FALSE,
                   !.lastUpdated = IF ResponseChanged(c, data) THEN DateOf(t) ELSE @]
    ELSE c

\* a success path that leaves the card loading
SucceededKeepsLoading(c, id, data, t) ==
    IF c.id = id
    THEN [c EXCEPT !.response = data, !.error = Null,
                   !.lastUpdated = IF ResponseChanged(c, data) THEN DateOf(t) ELSE @]
    ELSE c

\* a success path that keeps the response a card already has
SucceededFirstWins(c, id, data, t) ==
    IF c.id = id
    THEN [c EXCEPT !.response = IF @ = Null THEN data ELSE @, !.error = Null,
                   !.loading = FALSE,
                   !.lastUpdated = IF ResponseChanged(c, data) THEN DateOf(t) ELSE @]
    ELSE c

\* the callback of prev.map(...) on success
Succeeded(c, id, data, t) ==
    IF c.id = id
    THEN [c EXCEPT !.response = data, !.error = Null, !.loading = FALSE,
                   !.lastUpdated = IF ResponseChanged(c, data) THEN DateOf(t) ELSE @]
    ELSE c

\* a success path that marks the id as changed without looking at the cards
MarksChangedWithoutCard(cs, id, data) == TRUE

\* setChangedCardIds is called inside the callback, for a card with this id
\* whose response changed while its autoRefresh is set
MarksChanged(cs, id, data) ==
    \E i \in 1..Len(cs) :
        cs[i].id = id /\ ResponseChanged(cs[i], data) /\ cs[i].autoRefresh

\* a failure path that forgets when the response was last updated
FailedResetsLastUpdated(c, id, message) ==
    IF c.id = id
    THEN [c EXCEPT !.error = Str(message), !.loading = FALSE, !.lastUpdated = Null]
    ELSE c

\* a failure path that drops the stale response
FailedClearsResponse(c, id, message) ==
    IF c.id = id
    THEN [c EXCEPT !.error = Str(message), !.loading = FALSE, !.response = Null]
    ELSE c

\* the callback of prev.map(...) in the catch block
Failed(c, id, message) ==
    IF c.id = id THEN [c EXCEPT !.error = Str(message), !.loading = FALSE] ELSE c

FetchSettled(f, outcome) ==
    /\ Budget
    /\ mounted
    /\ f \in inFlight
    /\ inFlight' = inFlight \ {f}
    /\ due' = {}
    /\ LET err == ThrownBy(outcome) IN
       IF err.name = "none"
       THEN LET data == outcome.res.body IN
            /\ CommitCards(MapSeq(LAMBDA c : Succeeded(c, f.cardId, data, now), cards))
            /\ changedCardIds' = IF MarksChanged(cards, f.cardId, data)
                                 THEN changedCardIds \cup {f.cardId}
                                 ELSE changedCardIds
            /\ localStorage' =
                  IF MarksChanged(cards, f.cardId, data)
                  THEN PersistChangedIds(PersistCards(localStorage, cards'), changedCardIds')
                  ELSE PersistCards(localStorage, cards')
       ELSE /\ CommitCards(MapSeq(LAMBDA c : Failed(c, f.cardId, Classify(err)), cards))
            /\ localStorage' = PersistCards(localStorage, cards')
            /\ UNCHANGED changedCardIds
    /\ last' = [op |-> "settled", fetch |-> f, outcome |-> outcome,
                earlier |-> IF last.op = "settled" /\ last.fetch.cardId = f.cardId
                            THEN <<last.fetch, last.outcome>>
                            ELSE <<>>]
    /\ UNCHANGED <<mounted, globalRefreshInterval, editingCardId, quotaExceeded, now>>
    /\ UNCHANGED detailVars

(***************************************************************************)
(* The environment: the clock advances, the storage quota fills up or is   *)
(* freed.                                                                  *)
(***************************************************************************)
Tick ==
    /\ Budget
    /\ now < MaxTime
    /\ now' = now + 1
    /\ last' = [op |-> "tick"]
    /\ UNCHANGED <<mounted, cards, changedCardIds, globalRefreshInterval, editingCardId,
                   localStorage, quotaExceeded, intervals, armedAt, delay, due, leaked,
                   inFlight>>
    /\ UNCHANGED detailVars

QuotaChanges ==
    /\ Budget
    /\ quotaExceeded' = ~quotaExceeded
    /\ last' = [op |-> "quota"]
    /\ UNCHANGED <<mounted, cards, changedCardIds, globalRefreshInterval, editingCardId,
                   localStorage, intervals, armedAt, delay, due, leaked, inFlight, now>>
    /\ UNCHANGED detailVars

\* the handlers that call setCards, when they get past their validation
MutatesCards(l) ==
    \/ l.op \in {"toggleAutoRefresh", "fetchData", "settled"}
    \/ l.op \in {"addCard", "saveEditCard"} /\ l.accepted
    \/ l.op = "deleteCard" /\ l.confirmed

\* the handlers after which the auto-refresh effect runs: the first render,
\* every new cards array, every new interval
Rebuilds(l) ==
    \/ l.op \in {"mount", "setGlobalRefreshInterval"}
    \/ MutatesCards(l)

(***************************************************************************)
(* The diff detail view (SwaggerViewDetail.tsx).  A request is a record of  *)
(* its kind: "list" for the diff logs of the service, "count" for the      *)
(* detail of one diff log that fetchDiffLogs reads the schema counts from, *)
(* "detail" for the detail fetchDiffDetail asks for.                       *)
(***************************************************************************)
Request(kind, diffLogId) == [n |-> steps, kind |-> kind, diffLogId |-> diffLogId]

\* data.content || [] of the answers the backend can give: diffLogIds, newest first
LogLists == {<<>>, <<2>>, <<2, 1>>}

\* how a request ends: a 2xx answer, another status, or a rejection of fetch
RequestEnds == {"ok", "status", "rejected"}
MsgFailedToFetch == "Failed to fetch"
MsgDiffLogs == "Failed to fetch diff logs"
MsgDiffDetail == "Failed to fetch diff detail"

\* the route /swagger-view/:serviceName is rendered: the useState initial
\* values, then the effect calls fetchDiffLogs, which runs up to its first await
DetailMount ==
    /\ Budget
    /\ ~mounted
    /\ ~detailMounted
    /\ detailMounted' = TRUE
    /\ diffLogs' = <<>>
    /\ selectedDiff' = Null
    /\ schemaCounts' = {}
    /\ schemaCountsMap' = {}
    /\ detailLoading' = TRUE
    /\ detailError' = Null
    /\ requests' = {Request("list", 0)}
    /\ last' = [op |-> "detailMount"]
    /\ UNCHANGED listVars

\* fetchDiffDetail up to its await: setLoading(true), then the request
fetchDiffDetailStart(diffLogId, pending) ==
    /\ detailLoading' = TRUE
    /\ requests' = pending \cup {Request("detail", diffLogId)}

\* the end of fetchDiffLogs once Promise.all has resolved: the counts are
\* stored, fetchDiffDetail is called for the newest diff log and not awaited,
\* and the finally block runs
fetchDiffLogsEnd(logs, counts, pending) ==
    /\ schemaCounts' = counts
    /\ IF Len(logs) > 0
       THEN requests' = pending \cup {Request("detail", logs[1])}
       ELSE requests' = pending
    /\ detailLoading' = FALSE

\* fetchDiffLogs after the list request resolves or rejects
fetchDiffLogsListed(r, end, logs) ==
    /\ Budget
    /\ detailMounted
    /\ r \in requests
    /\ r.kind = "list"
    /\ IF end # "ok"
       THEN /\ detailError' = Str(IF end = "status" THEN MsgDiffLogs ELSE MsgFailedToFetch)
            /\ detailLoading' = FALSE
            /\ requests' = requests \ {r}
            /\ UNCHANGED <<diffLogs, schemaCounts, schemaCountsMap>>
       ELSE /\ diffLogs' = logs
            /\ schemaCountsMap' = {}
            /\ UNCHANGED detailError
            /\ IF Len(logs) = 0
               THEN fetchDiffLogsEnd(logs, {}, requests \ {r})
               ELSE /\ requests' = (requests \ {r})
                                    \cup {Request("count", logs[i]) : i \in 1..Len(logs)}
                    /\ UNCHANGED <<detailLoading, schemaCounts>>
    /\ last' = [op |-> "listed", end |-> end]
    /\ UNCHANGED <<detailMounted, selectedDiff>>
    /\ UNCHANGED listVars

\* one of the detailPromises settles; with the last one Promise.all resolves
fetchDiffLogsCounted(r, end) ==
    /\ Budget
    /\ detailMounted
    /\ r \in requests
    /\ r.kind = "count"
    /\ LET counts == IF end = "ok" THEN schemaCountsMap \cup {r.diffLogId}
                                   ELSE schemaCountsMap
           pending == requests \ {r}
       IN /\ schemaCountsMap' = counts
          /\ IF \E q \in pending : q.kind = "count"
             THEN /\ requests' = pending
                  /\ UNCHANGED <<detailLoading, schemaCounts>>
             ELSE fetchDiffLogsEnd(diffLogs, counts, pending)
    /\ last' = [op |-> "counted", end |-> end]
    /\ UNCHANGED <<detailMounted, diffLogs, selectedDiff, detailError>>
    /\ UNCHANGED listVars

\* the user clicks a diff log of the list
fetchDiffDetail(i) ==
    /\ Budget
    /\ detailMounted
    /\ i \in 1..Len(diffLogs)
    /\ fetchDiffDetailStart(diffLogs[i], requests)
    /\ last' = [op |-> "fetchDiffDetail", diffLogId |-> diffLogs[i]]
    /\ UNCHANGED <<detailMounted, diffLogs, selectedDiff, detailError, schemaCounts,
                   schemaCountsMap>>
    /\ UNCHANGED listVars

\* fetchDiffDetail after its request resolves or rejects
fetchDiffDetailSettled(r, end) ==
    /\ Budget
    /\ detailMounted
    /\ r \in requests
    /\ r.kind = "detail"
    /\ requests' = requests \ {r}
    /\ IF end = "ok"
       THEN /\ selectedDiff' = Num(r.diffLogId)
            /\ schemaCounts' = schemaCounts \cup {r.diffLogId}
            /\ UNCHANGED detailError
       ELSE /\ detailError' = Str(IF end = "status" THEN MsgDiffDetail ELSE MsgFailedToFetch)
            /\ UNCHANGED <<selectedDiff, schemaCounts>>
    /\ detailLoading' = FALSE
    /\ last' = [op |-> "detailSettled", end |-> end]
    /\ UNCHANGED <<detailMounted, diffLogs, schemaCountsMap>>
    /\ UNCHANGED listVars

\* the back button: navigate("/swagger-view"); what a request still in flight
\* resolves to no longer reaches any state
DetailUnmount ==
    /\ Budget
    /\ detailMounted
    /\ detailMounted' = FALSE
    /\ diffLogs' = <<>>
    /\ selectedDiff' = Null
    /\ schemaCounts' = {}
    /\ schemaCountsMap' = {}
    /\ detailLoading' = FALSE
    /\ detailError' = Null
    /\ requests' = {}
    /\ last' = [op |-> "detailUnmount"]
    /\ UNCHANGED listVars

(***************************************************************************)
(* The specifications.                                                     *)
(*                                                                         *)
(*   Spec       a fresh browser profile; the registry, the fetches with    *)
(*              one outcome of each kind, navigation and reload            *)
(*   SpecFetch  a fresh profile; the fetch path with every outcome of      *)
(*              FetchOutcomes                                              *)
(*   SpecLoad   localStorage holds whatever it may hold when the page is   *)
(*              opened; mounting, reloading and the fetches                *)
(*   SpecEnvironment  Spec with the storage quota and the interval select  *)
(*   SpecPolling  the view stays mounted for ever; the intervals fire when  *)
(*              their delay has passed; with fairness, for liveness        *)
(*   SpecDetail  the diff detail view: its requests and its loading flag   *)
(*   SpecRestored  a profile in which an earlier session stored two cards  *)
(*              with one id, both auto-refreshed                           *)
(***************************************************************************)
AddCard == \E in \in FormInputs : addCard(in.name, in.url, in.swaggerUrl)
StartEditCard == \E i \in 1..MaxCards : startEditCard(i)
SaveEditCard == \E in \in FormInputs : saveEditCard(in.name, in.url, in.swaggerUrl)
DeleteCard == \E i \in 1..MaxCards, confirmed \in BOOLEAN : deleteCard(i, confirmed)
ToggleAutoRefresh == \E i \in 1..MaxCards : toggleAutoRefresh(i)
HandleCardClick ==
    \E i \in 1..MaxCards, effectRuns \in BOOLEAN : handleCardClick(i, effectRuns)
FetchDataByButton == \E i \in 1..MaxCards : fetchDataByButton(i)
FetchDataByInterval == \E id \in intervals : fetchDataByInterval(id)
FetchDataByLeakedInterval == \E id \in leaked : fetchDataByLeakedInterval(id)
SettleCore == \E f \in inFlight, outcome \in CoreOutcomes : FetchSettled(f, outcome)
SettleAny == \E f \in inFlight, outcome \in FetchOutcomes : FetchSettled(f, outcome)
SetGlobalRefreshInterval == \E n \in IntervalOptions : setGlobalRefreshInterval(n)

Next ==
    \/ Mount
    \/ Unmount
    \/ HandleCardClick
    \/ AddCard
    \/ StartEditCard
    \/ cancelEdit
    \/ SaveEditCard
    \/ DeleteCard
    \/ ToggleAutoRefresh
    \/ FetchDataByButton
    \/ FetchDataByInterval
    \/ FetchDataByLeakedInterval
    \/ SettleCore
    \/ Tick

Spec == Init /\ [][Next]_vars

NextFetch ==
    \/ Mount
    \/ AddCard
    \/ ToggleAutoRefresh
    \/ FetchDataByButton
    \/ FetchDataByInterval
    \/ SettleAny
    \/ Tick

SpecFetch == Init /\ [][NextFetch]_vars

InitLoad ==
    /\ mounted = FALSE
    /\ cards = <<>>
    /\ changedCardIds = {}
    /\ globalRefreshInterval = DefaultInterval
    /\ editingCardId = Null
    /\ localStorage \in [cards : InitialCardItems, changed : InitialChangedItems,
                         interval : InitialIntervalItems]
    /\ quotaExceeded = FALSE
    /\ intervals = {}
    /\ armedAt = 0
    /\ delay = DefaultInterval
    /\ due = {}
    /\ leaked = {}
    /\ inFlight = {}
    /\ steps = 0
    /\ now = 0
    /\ last = [op |-> "init"]
    /\ DetailViewAbsent

NextLoad ==
    \/ Mount
    \/ Unmount
    \/ HandleCardClick
    \/ ToggleAutoRefresh
    \/ FetchDataByButton
    \/ FetchDataByInterval
    \/ SettleCore
    \/ Tick

SpecLoad == InitLoad /\ [][NextLoad]_vars

\* what an earlier session leaves in localStorage when two cards were added in
\* the same millisecond and auto-refresh was then switched on
TwinCard ==
    Card(Str(DateNowString(0)), Str("Orders"), Str("http://x/openapi"), Undefined,
         TRUE, FALSE, Null, Null, Null)

RestoredStorage ==
    [cards |-> StringifyCards(<<TwinCard, TwinCard>>),
     changed |-> StringifyIds({}),
     interval |-> StringOfNumber(DefaultInterval)]

InitRestored ==
    /\ mounted = FALSE
    /\ cards = <<>>
    /\ changedCardIds = {}
    /\ globalRefreshInterval = DefaultInterval
    /\ editingCardId = Null
    /\ localStorage = RestoredStorage
    /\ quotaExceeded = FALSE
    /\ intervals = {}
    /\ armedAt = 0
    /\ delay = DefaultInterval
    /\ due = {}
    /\ leaked = {}
    /\ inFlight = {}
    /\ steps = 0
    /\ now = 0
    /\ last = [op |-> "init"]
    /\ DetailViewAbsent

NextRestored ==
    \/ Mount
    \/ Unmount
    \/ ToggleAutoRefresh
    \/ FetchDataByButton
    \/ FetchDataByInterval
    \/ FetchDataByLeakedInterval
    \/ SettleCore
    \/ Tick

SpecRestored == InitRestored /\ [][NextRestored]_vars

\* the ids a card can have
CardIds == {DefaultCard.id, Str(DateNowString(0))}

\* what a session leaves in localStorage in which one card was added
TwoCardStorage ==
    [cards |-> StringifyCards(<<DefaultCard, NewCard(" Orders ", "http://x/openapi ", "", 0)>>),
     changed |-> StringifyIds({}),
     interval |-> StringOfNumber(DefaultInterval)]

InitPolling ==
    /\ mounted = FALSE
    /\ cards = <<>>
    /\ changedCardIds = {}
    /\ globalRefreshInterval = DefaultInterval
    /\ editingCardId = Null
    /\ localStorage = TwoCardStorage
    /\ quotaExceeded = FALSE
    /\ intervals = {}
    /\ armedAt = 0
    /\ delay = DefaultInterval
    /\ due = {}
    /\ leaked = {}
    /\ inFlight = {}
    /\ steps = NoBudget
    /\ now = 0
    /\ last = [op |-> "init"]
    /\ DetailViewAbsent

FetchDataWhenDue == \E id \in CardIds : fetchDataWhenDue(id)

NextPolling ==
    \/ Mount
    \/ ToggleAutoRefresh
    \/ FetchDataByButton
    \/ DelayElapses
    \/ FetchDataWhenDue
    \/ SettleCore

\* a step after which the auto-refresh effect has run again: the intervals
\* begin their delay anew
Restarts == NextPolling /\ Rebuilds(last')

\* Time does not stop: the delay of the live intervals passes unless they are
\* restarted first.  The backend answers.  An interval callback that is queued
\* and stays queued runs.
SpecPolling ==
    /\ InitPolling
    /\ [][NextPolling]_vars
    /\ WF_vars(DelayElapses \/ Restarts)
    /\ WF_vars(SettleCore)
    /\ \A id \in CardIds : WF_vars(fetchDataWhenDue(id))

FetchDiffLogsListed ==
    \E r \in requests, end \in RequestEnds, logs \in LogLists :
        fetchDiffLogsListed(r, end, logs)
FetchDiffLogsCounted == \E r \in requests, end \in RequestEnds : fetchDiffLogsCounted(r, end)
FetchDiffDetail == \E i \in 1..2 : fetchDiffDetail(i)
FetchDiffDetailSettled ==
    \E r \in requests, end \in RequestEnds : fetchDiffDetailSettled(r, end)

NextDetail ==
    \/ DetailMount
    \/ FetchDiffLogsListed
    \/ FetchDiffLogsCounted
    \/ FetchDiffDetail
    \/ FetchDiffDetailSettled
    \/ DetailUnmount

SpecDetail == Init /\ [][NextDetail]_vars

NextEnvironment ==
    \/ Next
    \/ QuotaChanges
    \/ SetGlobalRefreshInterval

SpecEnvironment == Init /\ [][NextEnvironment]_vars

(***************************************************************************)
(* Properties.                                                             *)
(***************************************************************************)
AllSpaces(s) == \A i \in 1..Len(s) : SubSeq(s, i, i) = " "

\* t is s without its leading and trailing spaces
IsTrimOf(t, s) ==
    /\ t = "" \/ (SubSeq(t, 1, 1) # " " /\ SubSeq(t, Len(t), Len(t)) # " ")
    /\ \E i \in 1..(Len(s) + 1) :
          /\ i + Len(t) - 1 <= Len(s)
          /\ SubSeq(s, i, i + Len(t) - 1) = t
          /\ AllSpaces(SubSeq(s, 1, i - 1))
          /\ AllSpaces(SubSeq(s, i + Len(t), Len(s)))

\* C1: no two cards of the registry have the same id.
C1_UniqueIds == Cardinality(Ids(cards)) = Len(cards)

\* C2: an addCard or a save-edit whose name or url is empty or holds only
\* spaces leaves the cards, the stored items and the changed ids as they were.
C2_RejectedChangesNothing ==
    [][(/\ last'.op \in {"addCard", "saveEditCard"}
        /\ AllSpaces(last'.name) \/ AllSpaces(last'.url))
       => UNCHANGED <<cards, localStorage, changedCardIds>>]_vars

C2_Witness ==
    /\ last.op = "saveEditCard"
    /\ AllSpaces(last.url)
    /\ ~AllSpaces(last.name)
    /\ Len(cards) = 2

\* C3: an addCard with a name and a url that are not blank appends exactly
\* one card, with the trimmed name and url, autoRefresh and loading false and
\* response, error and lastUpdated null; the cards before it are untouched.
C3_AddAppendsOne ==
    [][(/\ last'.op = "addCard"
        /\ ~AllSpaces(last'.name)
        /\ ~AllSpaces(last'.url))
       => /\ Len(cards') = Len(cards) + 1
          /\ SubSeq(cards', 1, Len(cards)) = cards
          /\ LET c == cards'[Len(cards')] IN
             /\ c.name.type = "string" /\ IsTrimOf(c.name.s, last'.name)
             /\ c.url.type = "string" /\ IsTrimOf(c.url.s, last'.url)
             /\ c.autoRefresh = FALSE
             /\ c.loading = FALSE
             /\ c.response = Null
             /\ c.error = Null
             /\ c.lastUpdated = Null]_vars

C3_Witness ==
    /\ last.op = "addCard"
    /\ last.accepted
    /\ last.name = " Orders "
    /\ Len(cards) = 2
    /\ cards[2].name = Str("Orders")
    /\ cards[1].response # Null

\* C4: storing the cards and loading them again gives the same cards, in the
\* same order, with loading false and every other field as it was.
LoadingOff(c) == [c EXCEPT !.loading = FALSE]

C4_RoundTrip ==
    mounted => loadCardsFromStorage(StringifyCards(cards)) = MapSeq(LoadingOff, cards)

\* C5: mounting with a card item that is absent or cannot be parsed into an
\* array of cards gives the one default card; mounting with an item that
\* parses gives one card per stored element, each with loading false.
CannotBeParsed(item) ==
    \/ item.kind = "absent"
    \/ item.kind = "text"
    \/ item.kind = "array" /\ \E i \in 1..Len(item.elems) : item.elems[i] = Null

C5_InitializeFailsSoft ==
    [][last'.op = "mount"
       => /\ mounted'
          /\ IF CannotBeParsed(localStorage.cards)
             THEN /\ Len(cards') = 1
                  /\ cards'[1].id = Str("1")
                  /\ cards'[1].autoRefresh = FALSE
                  /\ cards'[1].loading = FALSE
                  /\ cards'[1].response = Null
                  /\ cards'[1].error = Null
                  /\ cards'[1].lastUpdated = Null
             ELSE /\ Len(cards') = Len(localStorage.cards.elems)
                  /\ \A i \in 1..Len(cards') : cards'[i].loading = FALSE]_vars

C5_Witness ==
    /\ last.op = "mount"
    /\ last.item.kind = "array"
    /\ Len(last.item.elems) = 1
    /\ last.item.elems[1].type = "object"
    /\ last.item.elems[1].loading = Bool(TRUE)
    /\ Len(cards) = 1
    /\ cards[1].loading = FALSE

\* the fetch whose settling is the last step, and what it settled with
SettledCards(cs) == {i \in 1..Len(cs) : cs[i].id = last'.fetch.cardId}

SettledWithData ==
    /\ last'.op = "settled"
    /\ last'.outcome.kind = "response"
    /\ Ok(last'.outcome.res)
    /\ Truthy(last'.outcome.res.contentType)
    /\ Includes(last'.outcome.res.contentType.s, "application/json")
    /\ last'.outcome.res.body.type # "string"

\* C6: a successful fetch that delivers a response equal to the one the card
\* stores leaves lastUpdated as it was and does not add the id to the changed
\* ids.
C6_SameResponseIsNoChange ==
    [][SettledWithData
       => \A i \in SettledCards(cards) :
             DeepEqual(cards[i].response, last'.outcome.res.body)
             => /\ cards'[i].lastUpdated = cards[i].lastUpdated
                /\ cards[i].id \in changedCardIds' => cards[i].id \in changedCardIds]_vars

\* C7: a successful fetch that delivers a value different from the response a
\* card stores gives that card response = the value, error null, loading
\* false and lastUpdated = the time of the completion, and the id of the card
\* is in the changed ids afterwards exactly when it was there before or the
\* autoRefresh of the card is set when the completion is applied.
C7_ChangedResponseIsApplied ==
    [][SettledWithData
       => LET data == last'.outcome.res.body IN
          /\ Len(cards') = Len(cards)
          /\ \A i \in SettledCards(cards) :
                ~DeepEqual(cards[i].response, data)
                => /\ cards'[i] = [cards[i] EXCEPT !.response = data, !.error = Null,
                                                   !.loading = FALSE,
                                                   !.lastUpdated = DateOf(now)]
                   /\ cards[i].id \in changedCardIds'
                      <=> (cards[i].id \in changedCardIds \/ cards[i].autoRefresh)]_vars

SettledWithFailure ==
    /\ last'.op = "settled"
    /\ ThrownBy(last'.outcome).name # "none"

\* C8: a fetch that fails (network failure, non-2xx status, content type that
\* is not JSON) gives every card it was for a non-empty error and loading
\* false, changes no other field of any card and leaves the changed ids alone;
\* for a non-2xx status the message contains the status code.
C8_FailureKeepsResponse ==
    [][SettledWithFailure
       => /\ Len(cards') = Len(cards)
          /\ changedCardIds' = changedCardIds
          /\ \A i \in 1..Len(cards) :
                IF cards[i].id = last'.fetch.cardId
                THEN /\ cards'[i].error.type = "string"
                     /\ cards'[i].error.s # ""
                     /\ cards'[i] = [cards[i] EXCEPT !.error = cards'[i].error,
                                                     !.loading = FALSE]
                     /\ (last'.outcome.kind = "response" /\ ~Ok(last'.outcome.res))
                        => Includes(cards'[i].error.s,
                                    ToString(last'.outcome.res.status))
                ELSE cards'[i] = cards[i]]_vars

C8_Witness ==
    /\ last.op = "settled"
    /\ last.outcome.kind = "response"
    /\ last.outcome.res.status = 500
    /\ Len(cards) = 1
    /\ cards[1].response = Num(0)
    /\ cards[1].lastUpdated = DateOf(0)
    /\ cards[1].error = Str(MsgHttpStatus("500"))
    /\ ~cards[1].loading
    /\ now = 1

\* C9: after a 2xx answer whose content type is missing or does not contain
\* application/json, the error of the card is the invalid-format message,
\* whatever the content type and the body are.
C9_NonJsonIsInvalidFormat ==
    (/\ last.op = "settled"
     /\ last.outcome.kind = "response"
     /\ Ok(last.outcome.res)
     /\ \/ ~Truthy(last.outcome.res.contentType)
        \/ ~Includes(last.outcome.res.contentType.s, "application/json"))
    => \A i \in 1..Len(cards) :
          cards[i].id = last.fetch.cardId => cards[i].error = Str(MsgInvalidFormat)

\* C10: a confirmed delete removes the cards with the id and keeps the others
\* in their order with their fields, removes the id from the changed ids and
\* keeps the other ids, and the store holds the new card list and the new
\* changed ids.
C10_DeleteRemovesCardAndId ==
    [][(last'.op = "deleteCard" /\ last'.confirmed)
       => /\ cards' = SelectSeq(cards, LAMBDA c : c.id # last'.id)
          /\ changedCardIds' = changedCardIds \ {last'.id}
          /\ localStorage'.cards = StringifyCards(cards')
          /\ localStorage'.changed = StringifyIds(changedCardIds')]_vars

C10_Witness ==
    /\ last.op = "deleteCard"
    /\ last.confirmed
    /\ last.wasChanged
    /\ last.id \notin changedCardIds
    /\ Len(cards) = 1
    /\ cards[1].id # last.id
    /\ localStorage.changed = StringifyIds({})

\* C11: every fetch that an interval starts is started for an id that a card
\* of the registry with autoRefresh set carries at that moment.
C11_PollsOnlyAutoRefreshed ==
    [][(last'.op = "fetchData" /\ last'.byTimer)
       => \E i \in 1..Len(cards) : cards[i].id = last'.id /\ cards[i].autoRefresh]_vars

\* C12: while a card stays auto-refreshed and the global interval stays what
\* it is, the interval that polls the card keeps the period it began when it
\* was created or last fired: no fetch start by the button, no fetch
\* completion and no edit, of this card or another, begins the period anew.
C12_PeriodIsTheInterval ==
    [][\A id \in intervals \cap intervals' :
          (/\ mounted /\ mounted'
           /\ globalRefreshInterval' = globalRefreshInterval
           /\ ~(last'.op = "fetchData" /\ last'.byTimer /\ last'.id = id))
          => armedAt' = armedAt]_vars

C14_LoadingNeverPersisted ==
    localStorage.cards.kind = "array"
    => \A i \in 1..Len(localStorage.cards.elems) :
          Member(localStorage.cards.elems[i], "loading") # Bool(TRUE)

C17_WriteFailureIsSwallowed ==
    [][/\ (quotaExceeded /\ last'.op # "quota")
          => /\ localStorage' = localStorage
             /\ (last'.op = "addCard" /\ last'.accepted)
                => /\ Len(cards') = Len(cards) + 1
                   /\ SubSeq(cards', 1, Len(cards)) = cards
             /\ (last'.op = "saveEditCard" /\ last'.accepted)
                => /\ editingCardId' = Null
                   /\ \A i \in 1..Len(cards) :
                         cards[i].id = last'.id
                         => /\ cards'[i].name = Str(Trim(last'.name))
                            /\ cards'[i].url = Str(Trim(last'.url))
             /\ (last'.op = "deleteCard" /\ last'.confirmed)
                => /\ cards' = SelectSeq(cards, LAMBDA c : c.id # last'.id)
                   /\ changedCardIds' = changedCardIds \ {last'.id}
             /\ last'.op = "toggleAutoRefresh"
                => \A i \in 1..Len(cards) :
                      cards'[i] = [cards[i] EXCEPT
                                      !.autoRefresh = IF cards[i].id = last'.id THEN ~@ ELSE @]
             /\ last'.op = "fetchData"
                => \A i \in 1..Len(cards) :
                      cards'[i] = [cards[i] EXCEPT
                                      !.loading = IF cards[i].id = last'.id THEN TRUE ELSE @]
             /\ last'.op = "settled"
                => \A i \in 1..Len(cards) :
                      cards[i].id = last'.fetch.cardId
                      => /\ ~cards'[i].loading
                         /\ cards'[i].error = Null
                            <=> ThrownBy(last'.outcome).name = "none"
             /\ last'.op = "setGlobalRefreshInterval"
                => globalRefreshInterval' = last'.n
       /\ (~quotaExceeded /\ MutatesCards(last'))
          => localStorage'.cards = StringifyCards(cards')]_vars

C17_Witness ==
    /\ last.op = "settled"
    /\ quotaExceeded
    /\ Len(cards) = 2
    /\ cards[2].response = Num(0)
    /\ localStorage.cards = StringifyCards(<<DefaultCard>>)

\* lastUpdated b is not before lastUpdated a
NotBefore(a, b) == a = Null \/ (b # Null /\ b.time >= a.time)

\* C18: the lastUpdated of a card never returns to null and never decreases:
\* a step that keeps the cards in place keeps or advances it, a step that adds
\* or removes a card leaves the other cards as they are, and what is stored
\* when the view goes away restores the same lastUpdated at the next mount.
C18_LastUpdatedOnlyAdvances ==
    [][/\ (mounted /\ mounted' /\ Len(cards') = Len(cards))
          => \A i \in 1..Len(cards) :
                NotBefore(cards[i].lastUpdated, cards'[i].lastUpdated)
       /\ (mounted /\ mounted' /\ Len(cards') > Len(cards))
          => SubSeq(cards', 1, Len(cards)) = cards
       /\ (mounted /\ mounted' /\ Len(cards') < Len(cards))
          => cards' = SelectSeq(cards, LAMBDA c : c.id # last'.id)
       /\ (mounted /\ ~mounted')
          => LET restored == loadCardsFromStorage(localStorage'.cards)
             IN /\ Len(restored) = Len(cards)
                /\ \A i \in 1..Len(cards) :
                      restored[i].lastUpdated = cards[i].lastUpdated
       /\ (~mounted /\ mounted')
          => cards' = loadCardsFromStorage(localStorage.cards)]_vars

C18_Witness ==
    /\ last.op = "settled"
    /\ ThrownBy(last.outcome).name # "none"
    /\ now = 1
    /\ Len(cards) = 1
    /\ cards[1].lastUpdated = DateOf(0)
    /\ cards[1].error # Null

\* C19: a fetch completion leaves every card it is for with error null if it
\* is a success, changed response or not, and with a non-null error if it is a
\* failure; no other step changes the error of a card, and the stored cards
\* restore the same error at the next mount.
C19_MostRecentOutcomeWins ==
    [][/\ last'.op = "settled"
          => \A i \in 1..Len(cards) :
                IF cards[i].id = last'.fetch.cardId
                THEN cards'[i].error = Null <=> ThrownBy(last'.outcome).name = "none"
                ELSE cards'[i].error = cards[i].error
       /\ (mounted /\ mounted' /\ last'.op # "settled" /\ Len(cards') = Len(cards))
          => \A i \in 1..Len(cards) : cards'[i].error = cards[i].error
       /\ (mounted /\ mounted' /\ Len(cards') > Len(cards))
          => SubSeq(cards', 1, Len(cards)) = cards
       /\ (mounted /\ mounted' /\ Len(cards') < Len(cards))
          => cards' = SelectSeq(cards, LAMBDA c : c.id # last'.id)
       /\ (mounted /\ ~mounted')
          => LET restored == loadCardsFromStorage(localStorage'.cards)
             IN /\ Len(restored) = Len(cards)
                /\ \A i \in 1..Len(cards) : restored[i].error = cards[i].error]_vars

C19_Witness ==
    /\ last.op = "settled"
    /\ ThrownBy(last.outcome).name = "none"
    /\ last.outcome.res.body = Num(0)
    /\ now = 1
    /\ Len(cards) = 1
    /\ cards[1].error = Null
    /\ cards[1].response = Num(0)
    /\ cards[1].lastUpdated = DateOf(0)

\* C20: a card with loading true has a fetch in flight that was started for
\* its id, and loading becomes true only in a fetch start.
C20_LoadingHasFetchInFlight ==
    [][/\ \A i \in 1..Len(cards') :
             cards'[i].loading => \E f \in inFlight' : f.cardId = cards'[i].id
       /\ (Len(cards') = Len(cards)
           /\ \E i \in 1..Len(cards) : cards'[i].loading /\ ~cards[i].loading)
          => last'.op = "fetchData"
       /\ Len(cards') # Len(cards)
          => \A i \in 1..Len(cards') :
                cards'[i].loading => \E j \in 1..Len(cards) : cards[j] = cards'[i]]_vars

C20_Witness ==
    /\ last.op = "settled"
    /\ Len(cards) = 2
    /\ cards[1].loading
    /\ ~cards[2].loading
    /\ cards[2].response # Null
    /\ \E f \in inFlight : f.cardId = cards[1].id /\ f.byTimer

\* C21: after the auto-refresh effect has run for a change of the cards or of
\* the interval, the live intervals are those of the cards with autoRefresh set
\* and no others, they run with the current global interval, and no interval
\* of an earlier run of the effect is still live.
C21_TimersMatchRegistry ==
    [][(mounted' /\ Rebuilds(last'))
       => /\ intervals' = AutoRefreshIds(cards')
          /\ delay' = globalRefreshInterval'
          /\ leaked = {}]_vars

\* C22: when a fetch completes with data, every card it is for holds exactly
\* that data as its response afterwards, whatever an earlier completion for the
\* same card stored: of two overlapping fetches that both succeed, the one that
\* resolves last decides the response, also when it was started first.
C22_LastResolvedWins ==
    (last.op = "settled" /\ ThrownBy(last.outcome).name = "none")
    => \A i \in 1..Len(cards) :
          cards[i].id = last.fetch.cardId => cards[i].response = last.outcome.res.body

\* the fetch started first resolves last, after the fetch started second
C22_Witness ==
    /\ last.op = "settled"
    /\ last.earlier # <<>>
    /\ last.earlier[1].n > last.fetch.n
    /\ ThrownBy(last.earlier[2]).name = "none"
    /\ ThrownBy(last.outcome).name = "none"
    /\ last.earlier[2].res.body # last.outcome.res.body
    /\ Len(cards) = 1
    /\ cards[1].response = last.outcome.res.body

\* C23: switching auto-refresh off for a card while a fetch for it is in
\* flight leaves no live interval for its id and leaves the fetch in flight;
\* when a fetch completes for a card whose autoRefresh is off, the card is
\* updated all the same: on success response is the data, error null, loading
\* false and lastUpdated kept or set to the completion time; on failure error
\* is a message and loading false.
C23_ToggleOffKeepsFetch ==
    [][/\ (/\ last'.op = "toggleAutoRefresh"
           /\ \E f \in inFlight : f.cardId = last'.id
           /\ \E i \in 1..Len(cards) : cards[i].id = last'.id /\ cards[i].autoRefresh
           /\ \A i \in 1..Len(cards') : cards'[i].id = last'.id => ~cards'[i].autoRefresh)
          => /\ last'.id \notin intervals' \cup leaked'
             /\ inFlight' = inFlight
       /\ last'.op = "settled"
          => \A i \in 1..Len(cards) :
                (cards[i].id = last'.fetch.cardId /\ ~cards[i].autoRefresh)
                => IF ThrownBy(last'.outcome).name = "none"
                   THEN /\ cards'[i].response = last'.outcome.res.body
                        /\ cards'[i].error = Null
                        /\ ~cards'[i].loading
                        /\ cards'[i].lastUpdated \in {cards[i].lastUpdated, DateOf(now)}
                   ELSE /\ cards'[i].error.type = "string"
                        /\ ~cards'[i].loading
                        /\ cards'[i].response = cards[i].response
                        /\ cards'[i].lastUpdated = cards[i].lastUpdated]_vars

\* C24: a card that from some moment on stays in the mounted view with
\* autoRefresh set, and that the user does not fetch by hand, is fetched by its
\* interval again and again, whatever happens to the other cards and whatever
\* its fetches return.
C24_PollingNeverStops ==
    \A id \in CardIds :
        <>[](/\ mounted
             /\ \E i \in 1..Len(cards) : cards[i].id = id /\ cards[i].autoRefresh
             /\ ~(last.op = "fetchData" /\ last.id = id /\ ~last.byTimer))
        => []<>(last.op = "fetchData" /\ last.byTimer /\ last.id = id)

\* C25: while the view is mounted, an id enters the changed ids only in the
\* completion of a fetch that an interval started, never in the completion of
\* a fetch started with the fetch button.
C25_OnlySchedulerMarksChanged ==
    [][(mounted /\ mounted' /\ changedCardIds' \ changedCardIds # {})
       => (last'.op = "settled" /\ last'.fetch.byTimer)]_vars

\* C26: an accepted save-edit changes the name, url and swaggerUrl of one card
\* with the edited id and nothing else: the other fields of that card, every
\* other card, the number and order of the cards and the changed ids stay as
\* they were.
C26_SaveEditFrame ==
    [][(last'.op = "saveEditCard" /\ last'.accepted)
       => /\ Len(cards') = Len(cards)
          /\ changedCardIds' = changedCardIds
          /\ \E i \in 1..Len(cards) :
                /\ cards[i].id = last'.id
                /\ cards'[i] = [cards[i] EXCEPT !.name = cards'[i].name,
                                                !.url = cards'[i].url,
                                                !.swaggerUrl = cards'[i].swaggerUrl]
                /\ cards'[i].name.type = "string" /\ IsTrimOf(cards'[i].name.s, last'.name)
                /\ cards'[i].url.type = "string" /\ IsTrimOf(cards'[i].url.s, last'.url)
                /\ \A j \in 1..Len(cards) : j # i => cards'[j] = cards[j]]_vars

\* C27: the completion, success or failure, of a fetch whose card is no
\* longer in the registry changes neither the cards nor the changed ids, and
\* the stored cards and the stored changed ids stay what the deletion wrote.
C27_DeletedCardStaysDeleted ==
    [][(last'.op = "settled" /\ last'.fetch.cardId \notin Ids(cards))
       => /\ cards' = cards
          /\ changedCardIds' = changedCardIds
          /\ localStorage'.cards = localStorage.cards
          /\ localStorage'.changed = localStorage.changed
          /\ localStorage'.cards = StringifyCards(cards')]_vars

\* the fetch was started with the button of a card that has since been deleted
C27_Witness ==
    /\ last.op = "settled"
    /\ ~last.fetch.byTimer
    /\ ThrownBy(last.outcome).name = "none"
    /\ last.fetch.cardId \notin Ids(cards)
    /\ Len(cards) = 1
    /\ cards[1].response = Null
    /\ changedCardIds = {}
    /\ localStorage.cards = StringifyCards(cards)

\* C28: in the mounted view every changed id is the id of a card of the
\* registry, and every card whose id is a changed id has a response and a
\* lastUpdated that are not null.
C28_ChangedIdsAreLiveCards ==
    mounted
    => /\ changedCardIds \subseteq Ids(cards)
       /\ \A i \in 1..Len(cards) :
             cards[i].id \in changedCardIds
             => /\ cards[i].response # Null
                /\ cards[i].lastUpdated # Null

\* C29: in the mounted view, every card for whose id a fetch is in flight has
\* loading true.
C29_LoadingWhileInFlight ==
    mounted
    => \A f \in inFlight : \A i \in 1..Len(cards) :
          cards[i].id = f.cardId => cards[i].loading

\* C30: in the detail view, loading is true as long as a request of the view
\* (the diff list, a diff detail) has not resolved; it is false only when no
\* request is outstanding.
C30_DetailLoadingWhileRequests ==
    (detailMounted /\ requests # {}) => detailLoading

====
